---- MODULE Spec2Model ----
(***************************************************************************)
(* Index advisor: the hypothetical-index cost sampler                      *)
(* (WorkloadRunner.get_optimized_cost), the per-shape aggregation of       *)
(* run_phase, and the decision engine (Alerter.analyze_workload).          *)
(*                                                                         *)
(* Tables and columns are numbered 1, 2, ...; a cost is a non-negative     *)
(* integer; Python's None is the value None below.                         *)
(***************************************************************************)
EXTENDS Integers, Sequences, FiniteSets, TLC

----------------------------------------------------------------------------
(* Bounds of the model *)

\* Most tables a sampled query references.
MaxTables == 2
\* Most columns a sampled query references.
MaxCols == 6
\* Columns 1..MaxIndexedCols may already carry a real index at startup.
MaxIndexedCols == 1
\* Most oracle requests that fail during one call of get_optimized_cost.
MaxFaults == 1
\* Passes of the body of run_phase's query loop before the deadline.
MaxIterations == 4
\* Most query shapes in the stats snapshot the alerter reads.
MaxShapes == 2
\* Decision runs made on the snapshot.
MaxRuns == 2
\* The time one pass of the query loop with oracle requests takes.
Tick == 6
\* run_workload's argument: the seconds a phase lasts.
duration_per_phase_sec == 12

\* Cost estimates the planner may answer with while a workload is sampled.
PlanCosts == {0, 40, 100}

----------------------------------------------------------------------------
(* Program constants *)

\* workload_runner.py:149  max_indexes = 50
max_indexes == 50

\* alerter.py:86  return 1000  # Fallback
fallback_create_cost == 1000

\* alerter.py:60, 70, 73  the size reported when the probe fails
fallback_index_size == 5000000

\* alerter.py:23  max_space_budget_mb * 1_000_000
bytes_per_mb == 1000000

\* alerter.py:197  [:3]
max_candidates == 3

None == -1

----------------------------------------------------------------------------
(* Generic helpers *)

Min(a, b) == IF a <= b THEN a ELSE b

Range(s) == {s[i] : i \in 1..Len(s)}

\* <<1, 2, ..., n>>
Iota(n) == [i \in 1..n |-> i]

\* [x for x in s if x not in excl], order kept
RECURSIVE FilterOut(_, _)
FilterOut(s, excl) ==
    IF s = <<>> THEN <<>>
    ELSE IF Head(s) \in excl THEN FilterOut(Tail(s), excl)
         ELSE <<Head(s)>> \o FilterOut(Tail(s), excl)

\* itertools.combinations(s, r): the r-element subsequences of s in
\* lexicographic order of their positions
RECURSIVE combinations(_, _)
combinations(s, r) ==
    IF r = 0 THEN <<(<<>>)>>
    ELSE IF Len(s) < r THEN <<>>
    ELSE LET withHead == combinations(Tail(s), r - 1)
             without  == combinations(Tail(s), r)
         IN  [i \in 1..Len(withHead) |-> <<Head(s)>> \o withHead[i]] \o without

\* Floats are modelled as exact fractions [n, d] in lowest terms, d > 0.
RECURSIVE GCD(_, _)
GCD(a, b) == IF b = 0 THEN a ELSE GCD(b, a % b)

Abs(x) == IF x < 0 THEN -x ELSE x

Frac(n, d) ==
    LET g == GCD(Abs(n), d) IN [n |-> n \div g, d |-> d \div g]

FracOf(i) == [n |-> i, d |-> 1]

FracLT(a, b) == a.n * b.d < b.n * a.d
FracLE(a, b) == a.n * b.d <= b.n * a.d
FracAdd(a, b) == Frac(a.n * b.d + b.n * a.d, a.d * b.d)
FracMin(a, b) == IF FracLE(a, b) THEN a ELSE b
FracMax(a, b) == IF FracLE(a, b) THEN b ELSE a

----------------------------------------------------------------------------
(* State *)

VARIABLES
    existing_indexes,  \* self.existing_indexes: columns indexed at startup
    hypopg,            \* oracle session: oids of the active hypothetical indexes
    plan_costs,        \* oracle: the cost estimates the planner answers with
    index_info,        \* self.index_info (has = FALSE: attribute not yet set)
    pc,                \* position inside get_optimized_cost
    tables,            \* argument: list of tables
    columns,           \* argument: list of columns
    new_columns,       \* columns without an existing index
    ti, ci,            \* position of the next create request (table, combination)
    di,                \* position of the next drop request in hyp_index_info
    index_count,
    hyp_index_info,    \* indexes this call created: [oid, size, combo, table]
    baseline_cost,     \* local baseline_cost of get_optimized_cost
    cost,              \* cost with the hypothetical indexes, or None
    used_indexes,
    ret,               \* value returned by get_optimized_cost
    faults             \* kinds of the oracle requests that failed during this call

samplerVars == <<existing_indexes, hypopg, plan_costs, index_info, pc, tables, columns,
                 new_columns, ti, ci, di, index_count, hyp_index_info,
                 baseline_cost, cost, used_indexes, ret, faults>>

VARIABLES
    stats,             \* self.stats: [queries, phases_completed, hot_columns]
    all_hot_cols,      \* run_phase: columns seen in this phase
    qi,                \* run_phase: position in the round-robin list of queries
    query,             \* run_phase: the query being sampled
    rp_baseline_cost,  \* run_phase: local baseline_cost
    iterations,        \* passes of the body of the query loop so far
    samples            \* history: per query, the improvement_pct of the
                       \* samples recorded for it

runnerVars == <<stats, all_hot_cols, qi, query, rp_baseline_cost, iterations,
                samples>>

VARIABLES
    stats_file,            \* workload_<id>_stats.json: [exists, queries]
    pg_indexes,            \* names of the real indexes on orders (pg_indexes)
    improvement_threshold, \* Alerter.improvement_threshold, percent
    max_space_budget,      \* Alerter.max_space_budget, bytes
    oracle,                \* the database's answers to the alerter's requests
    now,                   \* clock: decision runs made so far
    last,                  \* locals and result of the latest analyze_workload
    prev,                  \* the same of the run before it
    alert_file             \* workload_<id>_alert.json: [exists, recommendation]

alerterVars == <<stats_file, pg_indexes, improvement_threshold,
                 max_space_budget, oracle, now, last, prev, alert_file>>

VARIABLES
    phase,             \* run_workload: the phase of range(4), 4 after the last
    wpc,               \* position inside run_workload
    clock,             \* time.time(), a logical clock
    start_time,        \* run_phase: start_time
    last_save_time,    \* run_phase: last_save_time
    disk,              \* workload_<id>_stats.json as the runner writes it
    final_persist,     \* outcome of the save_stats call of the finally block
    interrupted,       \* history: an exception ended a phase
    io_failed,         \* history: a save_stats call of the run failed
    unsaved_since      \* history: when the oldest recorded execution that no
                       \* written snapshot holds was recorded, or None

workloadVars == <<phase, wpc, clock, start_time, last_save_time, disk,
                  final_persist, interrupted, io_failed, unsaved_since>>

vars == <<samplerVars, runnerVars, alerterVars, workloadVars>>

----------------------------------------------------------------------------
(* WorkloadRunner.get_optimized_cost *)

\* all_combinations without the triplets of lines 140-143
all_combinations_NoTriplets(nc) ==
    combinations(nc, 1)
    \o (IF Len(nc) >= 2 THEN combinations(nc, 2) ELSE <<>>)

\* lines 127-143: singles, then pairs, then triplets
all_combinations(nc) ==
    combinations(nc, 1)
    \o (IF Len(nc) >= 2 THEN combinations(nc, 2) ELSE <<>>)
    \o (IF Len(nc) >= 3 THEN combinations(nc, 3) ELSE <<>>)

\* A handle the oracle has not given out in this session.
FreshOid == 1 + (CHOOSE m \in hypopg \cup {0} : \A o \in hypopg \cup {0} : o <= m)

\* hypopg_relation_size(oid): the oracle's size of an index over combo
HypoSize(combo) == Len(combo)

\* the dict built for one hypothetical index (lines 196-201, 213-218)
IndexDict(h) ==
    [index_name |-> h.oid, columns |-> h.combo, table |-> h.table,
     size_bytes |-> h.size]

\* The indexes whose names the planner may mention in its plan: none, the
\* first created or the last created.
PlanMentions(hyp) ==
    {{}} \cup (IF hyp = <<>> THEN {} ELSE {{1}, {Len(hyp)}})

\* lines 193-201: the created indexes, in creation order, whose name
\* appears in the plan
RECURSIVE UsedByPlan(_, _, _)
UsedByPlan(hyp, mentioned, i) ==
    IF i > Len(hyp) THEN <<>>
    ELSE (IF i \in mentioned THEN <<IndexDict(hyp[i])>> ELSE <<>>)
         \o UsedByPlan(hyp, mentioned, i + 1)

CanFail == Len(faults) < MaxFaults

ResetLocals ==
    /\ new_columns' = <<>>
    /\ ti' = 1
    /\ ci' = 1
    /\ di' = 1
    /\ index_count' = 0
    /\ hyp_index_info' = <<>>
    /\ baseline_cost' = None
    /\ cost' = None
    /\ used_indexes' = <<>>

\* every column taken as new
NewColumns_All(cols, existing) == cols

\* line 118: new_columns = [col for col in columns if col not in
\* self.existing_indexes]
NewColumns(cols, existing) == FilterOut(cols, existing)

\* lines 105-125: entry of get_optimized_cost(query, tables, columns).
\* estimate is the planner's present estimate of the query without
\* hypothetical indexes: get_baseline_cost answers it, or None on an
\* oracle error.  (A failure of CREATE EXTENSION is swallowed, lines 108-112.)
Enter(tbls, cols, estimate) ==
    /\ tables' = tbls
    /\ columns' = cols
    /\ faults' \in {<<>>} \cup (IF MaxFaults > 0 THEN {<<"baseline">>} ELSE {})
    /\ LET nc == NewColumns(cols, existing_indexes)
           answers == IF faults' # <<>> THEN {None} ELSE {estimate}
       IN  IF tbls = <<>> \/ cols = <<>>
           THEN /\ faults' = <<>>
                /\ ResetLocals
                /\ ret' = None
                /\ pc' = "done"
           ELSE IF nc = <<>>
           THEN /\ ResetLocals
                /\ ret' \in answers
                /\ pc' = "done"
           ELSE /\ baseline_cost' \in answers
                /\ new_columns' = nc
                /\ ti' = 1
                /\ ci' = 1
                /\ di' = 1
                /\ index_count' = 0
                /\ hyp_index_info' = <<>>
                /\ cost' = None
                /\ used_indexes' = <<>>
                /\ ret' = None
                /\ pc' = "create"
    /\ UNCHANGED <<existing_indexes, hypopg, plan_costs, index_info>>

\* the loops without the checks of lines 152-153 and 155-156
MoreToCreate_NoCap == ti <= Len(tables)

\* the loops of lines 151-156 have a request left to issue
MoreToCreate ==
    /\ ti <= Len(tables)
    /\ index_count < max_indexes

\* lines 157-177: one hypopg_create_index request and its size request
CreateIndex ==
    /\ pc = "create"
    /\ MoreToCreate
    /\ LET combos == all_combinations(new_columns)
           combo  == combos[ci]
       IN  /\ \/ \* created; the size is read
                 /\ hyp_index_info' = Append(hyp_index_info,
                        [oid |-> FreshOid, size |-> HypoSize(combo),
                         combo |-> combo, table |-> tables[ti]])
                 /\ hypopg' = hypopg \cup {FreshOid}
                 /\ index_count' = index_count + 1
                 /\ faults' = faults
              \/ \* created; hypopg_relation_size fails: index_size = 0
                 /\ CanFail
                 /\ hyp_index_info' = Append(hyp_index_info,
                        [oid |-> FreshOid, size |-> 0,
                         combo |-> combo, table |-> tables[ti]])
                 /\ hypopg' = hypopg \cup {FreshOid}
                 /\ index_count' = index_count + 1
                 /\ faults' = Append(faults, "size")
              \/ \* hypopg_create_index fails: nothing is created
                 /\ CanFail
                 /\ faults' = Append(faults, "create")
                 /\ UNCHANGED <<hyp_index_info, hypopg, index_count>>
           /\ IF ci < Len(combos)
              THEN ci' = ci + 1 /\ ti' = ti
              ELSE ci' = 1 /\ ti' = ti + 1
    /\ UNCHANGED <<existing_indexes, plan_costs, index_info, pc, tables, columns,
                   new_columns, di, baseline_cost, cost, used_indexes, ret>>
    /\ UNCHANGED <<runnerVars, alerterVars, workloadVars>>

\* lines 179-221: one EXPLAIN with every created index visible, then the
\* result is stored in self.index_info
Explain ==
    /\ pc = "create"
    /\ ~MoreToCreate
    /\ \/ \* planner answers
          /\ hyp_index_info # <<>>
          /\ \E c \in plan_costs, m \in PlanMentions(hyp_index_info) :
                /\ cost' = c
                /\ used_indexes' = UsedByPlan(hyp_index_info, m, 1)
          /\ faults' = faults
       \/ \* EXPLAIN fails
          /\ hyp_index_info # <<>>
          /\ CanFail
          /\ cost' = None
          /\ used_indexes' = <<>>
          /\ faults' = Append(faults, "explain")
       \/ \* nothing was created: no EXPLAIN
          /\ hyp_index_info = <<>>
          /\ cost' = None
          /\ used_indexes' = <<>>
          /\ faults' = faults
    /\ index_info' = [has |-> TRUE,
                      all_created |-> [i \in 1..Len(hyp_index_info) |->
                                          IndexDict(hyp_index_info[i])],
                      used_by_query |-> used_indexes']
    /\ pc' = "drop"
    /\ UNCHANGED <<existing_indexes, hypopg, plan_costs, tables, columns, new_columns,
                   ti, ci, di, index_count, hyp_index_info, baseline_cost, ret>>
    /\ UNCHANGED <<runnerVars, alerterVars, workloadVars>>

\* lines 224-228: one hypopg_drop_index request; a failure is swallowed
DropIndex ==
    /\ pc = "drop"
    /\ di <= Len(hyp_index_info)
    /\ \/ /\ hypopg' = hypopg \ {hyp_index_info[di].oid}
          /\ faults' = faults
       \/ /\ CanFail
          /\ hypopg' = hypopg
          /\ faults' = Append(faults, "drop")
    /\ di' = di + 1
    /\ UNCHANGED <<existing_indexes, plan_costs, index_info, pc, tables, columns,
                   new_columns, ti, ci, index_count, hyp_index_info,
                   baseline_cost, cost, used_indexes, ret>>
    /\ UNCHANGED <<runnerVars, alerterVars, workloadVars>>

\* the return without the fallback of lines 236-237
Return_NoFallback ==
    /\ pc = "drop"
    /\ di > Len(hyp_index_info)
    /\ \/ /\ ret' = cost
          /\ faults' = faults
       \/ /\ CanFail
          /\ ret' = None
          /\ faults' = Append(faults, "commit")
    /\ pc' = "done"
    /\ UNCHANGED <<existing_indexes, hypopg, plan_costs, index_info, tables, columns,
                   new_columns, ti, ci, di, index_count, hyp_index_info,
                   baseline_cost, cost, used_indexes>>
    /\ UNCHANGED <<runnerVars, alerterVars, workloadVars>>

\* lines 230-240: commit, then the cost or the baseline; an exception of the
\* commit reaches the outer handler, which returns None
Return ==
    /\ pc = "drop"
    /\ di > Len(hyp_index_info)
    /\ \/ /\ ret' = IF cost # None THEN cost ELSE baseline_cost
          /\ faults' = faults
       \/ /\ CanFail
          /\ ret' = None
          /\ faults' = Append(faults, "commit")
    /\ pc' = "done"
    /\ UNCHANGED <<existing_indexes, hypopg, plan_costs, index_info, tables, columns,
                   new_columns, ti, ci, di, index_count, hyp_index_info,
                   baseline_cost, cost, used_indexes>>
    /\ UNCHANGED <<runnerVars, alerterVars, workloadVars>>

----------------------------------------------------------------------------
(* WorkloadRunner.run_phase: the body of the query loop *)

\* The canned queries of a phase (get_phase_queries), as the extractors see
\* them: the tables after FROM/JOIN and the alias-qualified columns.  The
\* third query qualifies no column (the default fallback queries).  The
\* fourth is on a column the queries of the first phases do not reference.
CannedQueries ==
    <<[tables |-> <<1>>, columns |-> <<1, 2>>],
      [tables |-> <<1>>, columns |-> <<1>>],
      [tables |-> <<1>>, columns |-> <<>>],
      [tables |-> <<1>>, columns |-> <<3>>]>>

\* lines 242-380: the list of a phase; the later phases shift to other
\* columns
get_phase_queries(phase_num) ==
    IF phase_num < 2 THEN <<1, 2, 3>> ELSE <<4, 3>>

extract_tables_from_query(q) == CannedQueries[q].tables

extract_columns_from_query(q) == CannedQueries[q].columns

\* lines 421-424: this sample's own improvement
improvement_pct(baseline, optimized) ==
    IF baseline > 0 THEN Frac((baseline - optimized) * 100, baseline)
    ELSE FracOf(0)

\* the share of the cost that remains, in place of the share saved
avg_improvement_pct_Remaining(total_baseline, total_optimized) ==
    IF total_baseline > 0
    THEN Frac(total_optimized * 100, total_baseline)
    ELSE FracOf(0)

\* lines 454-455: the improvement over the cumulative sums
avg_improvement_pct(total_baseline, total_optimized) ==
    IF total_baseline > 0
    THEN Frac((total_baseline - total_optimized) * 100, total_baseline)
    ELSE FracOf(0)

\* lines 433-445
NewEntry(q, tbls, cols) ==
    [full_query             |-> q,
     tables                 |-> tbls,
     hot_columns            |-> cols,
     executions             |-> 0,
     total_baseline_cost    |-> 0,
     total_optimized_cost   |-> 0,
     avg_improvement_pct    |-> FracOf(0),
     min_improvement_pct    |-> FracOf(100),
     max_improvement_pct    |-> FracOf(-100),
     total_index_size_bytes |-> 0,
     used_indexes           |-> <<>>]

RECURSIVE SumSizes(_)
SumSizes(used) ==
    IF used = <<>> THEN 0 ELSE Head(used).size_bytes + SumSizes(Tail(used))

\* lines 447-462
UpdateEntry(entry, baseline, optimized, info) ==
    LET tb  == entry.total_baseline_cost + baseline
        to  == entry.total_optimized_cost + optimized
        imp == improvement_pct(baseline, optimized)
    IN  [entry EXCEPT
           !.executions = @ + 1,
           !.total_baseline_cost = tb,
           !.total_optimized_cost = to,
           !.min_improvement_pct = FracMin(@, imp),
           !.max_improvement_pct = FracMax(@, imp),
           !.avg_improvement_pct = avg_improvement_pct(tb, to),
           !.used_indexes = IF info.has THEN info.used_by_query ELSE @,
           !.total_index_size_bytes =
               IF info.has THEN @ + SumSizes(info.used_by_query) ELSE @]

\* the skip of line 406 for two tables only
Unindexable_NoTables(tbls, cols) == tbls = <<>>

\* line 406: if not tables or not columns
Unindexable(tbls, cols) == tbls = <<>> \/ cols = <<>>

NextQuery == IF qi < Len(get_phase_queries(phase)) THEN qi + 1 ELSE 1

\* lines 398-416: extraction, the skip of an unindexable query, the baseline
\* EXPLAIN, and the call of get_optimized_cost
SampleQuery ==
    /\ pc = "idle"
    /\ iterations < MaxIterations
    /\ iterations' = iterations + 1
    /\ LET q    == get_phase_queries(phase)[qi]
           tbls == extract_tables_from_query(q)
           cols == extract_columns_from_query(q)
       IN  /\ query' = q
           /\ all_hot_cols' = all_hot_cols \cup Range(cols)
           /\ \/ \* unindexable query: continue
                 /\ Unindexable(tbls, cols)
                 /\ qi' = NextQuery
                 /\ UNCHANGED <<samplerVars, rp_baseline_cost>>
              \/ \* get_baseline_cost returns None: continue
                 /\ ~Unindexable(tbls, cols)
                 /\ rp_baseline_cost' = None
                 /\ qi' = NextQuery
                 /\ UNCHANGED samplerVars
              \/ /\ ~Unindexable(tbls, cols)
                 /\ \E estimate \in plan_costs :
                       /\ rp_baseline_cost' = estimate
                       /\ Enter(tbls, cols, estimate)
                 /\ qi' = qi
    /\ UNCHANGED <<stats, samples>>
    /\ UNCHANGED <<alerterVars, workloadVars>>

\* lines 417-464: the sample is dropped when get_optimized_cost returned
\* None, else it is merged into the entry of the query's shape
RecordExecution ==
    /\ pc = "done"
    /\ IF ret = None
       THEN UNCHANGED samples
       ELSE samples' = [samples EXCEPT ![query] =
                           @ \cup {improvement_pct(rp_baseline_cost, ret)}]
    /\ IF ret = None
       THEN UNCHANGED stats
       ELSE LET q     == query
                old   == IF q \in DOMAIN stats.queries
                         THEN stats.queries[q]
                         ELSE NewEntry(q, extract_tables_from_query(q),
                                       extract_columns_from_query(q))
                entry == UpdateEntry(old, rp_baseline_cost, ret, index_info)
            IN  stats' = [stats EXCEPT !.queries =
                            [k \in DOMAIN stats.queries \cup {q} |->
                                IF k = q THEN entry ELSE stats.queries[k]]]
    /\ qi' = NextQuery
    \* the frame of get_optimized_cost and the locals of this pass are gone
    /\ pc' = "idle"
    /\ ResetLocals
    /\ tables' = <<>>
    /\ columns' = <<>>
    /\ ret' = None
    /\ faults' = <<>>
    /\ rp_baseline_cost' = None
    /\ UNCHANGED <<existing_indexes, hypopg, plan_costs, index_info>>
    /\ UNCHANGED <<all_hot_cols, query, iterations>>
    /\ UNCHANGED <<alerterVars, workloadVars>>

----------------------------------------------------------------------------
(* WorkloadRunner.run_workload: the four phases, the periodic saves and the *)
(* final save.  One step is one pass of the body of the query loop, with    *)
(* the two cost requests of the pass taken as a whole: they give no cost    *)
(* (the sample is skipped) or a baseline and an optimized cost.             *)

\* line 395
save_interval == 10

\* line 499: time.sleep(2) between phases
phase_pause == 2

\* line 496: range(4)
phases == 4

\* sorted(list(S)) of a set of columns
RECURSIVE sorted(_)
sorted(S) ==
    IF S = {} THEN <<>>
    ELSE LET least == CHOOSE x \in S : \A y \in S : x <= y
         IN  <<least>> \o sorted(S \ {least})

\* lines 519-530, save_stats on the stats st: the file after it and whether
\* the call failed.  open() or json.dump raising is caught at line 528; the
\* file is then as before, or truncated when the write had begun.
save_stats(st) ==
    {[disk |-> [exists |-> TRUE, partial |-> FALSE, stats |-> st],
      failed |-> FALSE],
     [disk |-> disk, failed |-> TRUE],
     [disk |-> [disk EXCEPT !.exists = TRUE, !.partial = TRUE],
      failed |-> TRUE]}

\* lines 390-395: the locals of run_phase
StartPhase ==
    /\ wpc = "start"
    /\ all_hot_cols' = {}
    /\ start_time' = clock
    /\ last_save_time' = clock
    /\ qi' = 1
    /\ wpc' = "loop"
    /\ UNCHANGED <<stats, query, rp_baseline_cost, iterations, samples>>
    /\ UNCHANGED <<phase, clock, disk, final_persist, interrupted, io_failed,
                   unsaved_since>>
    /\ UNCHANGED <<samplerVars, alerterVars>>

\* line 397 after the last query of the list: the deadline of the phase
AfterPass(t) ==
    IF qi = Len(get_phase_queries(phase)) /\ t - start_time >= duration_per_phase_sec
    THEN "end" ELSE "loop"

\* lines 398-471: one pass of the body of the query loop.  The periodic
\* save of lines 466-471 is reached only after a sample was recorded.
Iterate ==
    /\ wpc = "loop"
    /\ LET q    == get_phase_queries(phase)[qi]
           tbls == extract_tables_from_query(q)
           cols == extract_columns_from_query(q)
       IN  /\ query' = q
           /\ all_hot_cols' = all_hot_cols \cup Range(cols)
           /\ qi' = NextQuery
           /\ \/ \* line 406: unindexable query, continue
                 /\ Unindexable(tbls, cols)
                 /\ clock' = clock
                 /\ UNCHANGED <<stats, samples, disk, io_failed,
                                last_save_time, unsaved_since>>
              \/ \* lines 411, 417: a cost request gave None, continue
                 /\ ~Unindexable(tbls, cols)
                 /\ clock' = clock + Tick
                 /\ UNCHANGED <<stats, samples, disk, io_failed,
                                last_save_time, unsaved_since>>
              \/ \* lines 420-471: the sample is recorded
                 /\ ~Unindexable(tbls, cols)
                 /\ clock' = clock + Tick
                 /\ \E b \in plan_costs, o \in plan_costs :
                      LET old   == IF q \in DOMAIN stats.queries
                                   THEN stats.queries[q]
                                   ELSE NewEntry(q, tbls, cols)
                          entry == UpdateEntry(old, b, o, index_info)
                          merged == [stats EXCEPT !.queries =
                                 [k \in DOMAIN stats.queries \cup {q} |->
                                     IF k = q THEN entry ELSE stats.queries[k]]]
                      IN  /\ samples' = [samples EXCEPT ![q] =
                                            @ \cup {improvement_pct(b, o)}]
                          /\ IF clock' - last_save_time >= save_interval
                             THEN /\ stats' = [merged EXCEPT !.hot_columns =
                                                  sorted(all_hot_cols')]
                                  /\ \E w \in save_stats(stats') :
                                        /\ disk' = w.disk
                                        /\ io_failed' = (io_failed \/ w.failed)
                                        /\ unsaved_since' =
                                             IF ~w.failed THEN None
                                             ELSE IF unsaved_since = None
                                             THEN clock' ELSE unsaved_since
                                  /\ last_save_time' = clock'
                             ELSE /\ stats' = merged
                                  /\ unsaved_since' =
                                       IF unsaved_since = None
                                       THEN clock' ELSE unsaved_since
                                  /\ UNCHANGED <<disk, io_failed, last_save_time>>
           /\ wpc' = AfterPass(clock')
    /\ UNCHANGED <<rp_baseline_cost, iterations>>
    /\ UNCHANGED <<phase, start_time, final_persist, interrupted>>
    /\ UNCHANGED <<samplerVars, alerterVars>>

\* lines 479-481 and 497-500: the phase is over; the next one starts after
\* the pause, the finally block after the last
EndPhase ==
    /\ wpc = "end"
    /\ stats' = [stats EXCEPT !.phases_completed = @ + 1,
                              !.hot_columns = sorted(all_hot_cols)]
    /\ phase' = phase + 1
    /\ IF phase < phases - 1
       THEN /\ clock' = clock + phase_pause
            /\ wpc' = "start"
       ELSE /\ clock' = clock
            /\ wpc' = "finally"
    /\ UNCHANGED <<all_hot_cols, qi, query, rp_baseline_cost, iterations, samples>>
    /\ UNCHANGED <<start_time, last_save_time, disk, final_persist,
                   interrupted, io_failed, unsaved_since>>
    /\ UNCHANGED <<samplerVars, alerterVars>>

\* an exception that leaves run_workload without the finally block
Interrupt_NoFinally ==
    /\ wpc \in {"start", "loop", "end"}
    /\ wpc' = "exited"
    /\ interrupted' = TRUE
    /\ UNCHANGED <<phase, clock, start_time, last_save_time, disk,
                   final_persist, io_failed, unsaved_since>>
    /\ UNCHANGED <<samplerVars, runnerVars, alerterVars>>

\* lines 495-501: an exception raised inside a phase (a KeyboardInterrupt,
\* an error of rollback) leaves the try block for the finally block
Interrupt ==
    /\ wpc \in {"start", "loop", "end"}
    /\ wpc' = "finally"
    /\ interrupted' = TRUE
    /\ UNCHANGED <<phase, clock, start_time, last_save_time, disk,
                   final_persist, io_failed, unsaved_since>>
    /\ UNCHANGED <<samplerVars, runnerVars, alerterVars>>

\* lines 501-503: finally: self.save_stats(), after which run_workload is
\* left (the summary of lines 505-517 writes nothing)
FinalSave ==
    /\ wpc = "finally"
    /\ \E w \in save_stats(stats) :
          /\ disk' = w.disk
          /\ io_failed' = (io_failed \/ w.failed)
          /\ final_persist' = IF w.failed THEN "failed" ELSE "saved"
          /\ unsaved_since' = IF w.failed THEN unsaved_since ELSE None
    /\ wpc' = "exited"
    /\ UNCHANGED <<phase, clock, start_time, last_save_time, interrupted>>
    /\ UNCHANGED <<samplerVars, runnerVars, alerterVars>>

----------------------------------------------------------------------------
(* Alerter: the decision engine                                            *)
(*                                                                         *)
(* The alerter's costs are floats, modelled as exact fractions.  An index  *)
(* name is the sequence of the name's tokens before the column, the        *)
(* column, and the numeric suffix of a temporary index (0 if none).        *)

FracSub(a, b) == Frac(a.n * b.d - b.n * a.d, a.d * b.d)

FracMul(a, b) == Frac(a.n * b.n, a.d * b.d)

\* Python's round(x, 2) of the exact value: to the nearest hundredth, a tie
\* to the even hundredth
round2(x) ==
    LET m == x.n * 100
        q == m \div x.d
        r == m - q * x.d
        h == IF 2 * r < x.d THEN q
             ELSE IF 2 * r > x.d THEN q + 1
             ELSE IF q % 2 = 0 THEN q ELSE q + 1
    IN  Frac(h, 100)

IndexName(parts, column, stamp) ==
    [parts |-> parts, column |-> column, stamp |-> stamp]

\* str.replace(a + b, ''): every occurrence of the two adjacent tokens goes
RECURSIVE RemovePair(_, _, _)
RemovePair(s, a, b) ==
    IF Len(s) < 2 THEN s
    ELSE IF s[1] = a /\ s[2] = b THEN RemovePair(Tail(Tail(s)), a, b)
    ELSE <<Head(s)>> \o RemovePair(Tail(s), a, b)

\* alerter.py:25-39: of every index whose name holds 'idx_', the name with
\* 'idx_' removed, then with 'idx_opt_' removed
get_existing_indexes(pg) ==
    {[m EXCEPT !.parts = RemovePair(FilterOut(@, {"idx_"}), "idx_", "opt_")] :
        m \in {x \in pg : "idx_" \in Range(x.parts)}}

\* col in existing
InExisting(col, existing) == IndexName(<<>>, col, 0) \in existing

\* alerter.py:75-86: the planner's cost of a scan of orders, 1000 when the
\* request fails
estimate_create_index_cost(failed) ==
    IF failed THEN FracOf(fallback_create_cost) ELSE oracle.scan_cost

\* alerter.py:88-90: a request of its own, times 0.2
estimate_drop_index_cost(failed) ==
    FracMul(estimate_create_index_cost(failed), Frac(1, 5))

Failed(i, request) == <<i, request>> \in oracle.faults

\* a probe whose answer depends on the time of the run
get_real_index_size_Timed(column, i, t, pg) ==
    [size |-> oracle.index_size + t, pg |-> pg]

\* alerter.py:41-73 for the i-th candidate at time t: the size reported and
\* the real indexes afterwards.  The temporary index is committed at line
\* 53, so it stays when the size query or the drop raises.
get_real_index_size(column, i, t, pg) ==
    LET temp_idx_name == IndexName(<<"temp_", "idx_", "size_">>, column, t)
    IN  IF Failed(i, "probe_create")
        THEN [size |-> fallback_index_size, pg |-> pg]
        ELSE IF Failed(i, "probe_size") \/ Failed(i, "probe_drop")
        THEN [size |-> fallback_index_size, pg |-> pg \cup {temp_idx_name}]
        ELSE [size |-> oracle.index_size, pg |-> pg]

\* lines 156-157: the sums over the shapes
RECURSIVE SumBaseline(_)
SumBaseline(queries) ==
    IF queries = <<>> THEN 0
    ELSE Head(queries).total_baseline_cost + SumBaseline(Tail(queries))

RECURSIVE SumImprovement(_)
SumImprovement(queries) ==
    IF queries = <<>> THEN 0
    ELSE (Head(queries).total_baseline_cost
            - Head(queries).total_optimized_cost)
         + SumImprovement(Tail(queries))

RECURSIVE SumPcts(_)
SumPcts(queries) ==
    IF queries = <<>> THEN FracOf(0)
    ELSE FracAdd(Head(queries).avg_improvement_pct, SumPcts(Tail(queries)))

RECURSIVE SumExecutions(_)
SumExecutions(queries) ==
    IF queries = <<>> THEN 0
    ELSE Head(queries).executions + SumExecutions(Tail(queries))

RECURSIVE SumPctsByExecutions(_)
SumPctsByExecutions(queries) ==
    IF queries = <<>> THEN FracOf(0)
    ELSE FracAdd(FracMul(Head(queries).avg_improvement_pct,
                         FracOf(Head(queries).executions)),
                 SumPctsByExecutions(Tail(queries)))

\* every shape weighted by its executions
mean_improvement_pct_ByExecutions(queries) ==
    IF queries = <<>> \/ SumExecutions(queries) = 0 THEN FracOf(0)
    ELSE FracMul(SumPctsByExecutions(queries),
                 Frac(1, SumExecutions(queries)))

\* lines 158, 175: sum(all_improvement_pcts) / len(all_improvement_pcts)
mean_improvement_pct(queries) ==
    IF queries = <<>> THEN FracOf(0)
    ELSE FracMul(SumPcts(queries), Frac(1, Len(queries)))

\* line 162: hot_columns_all_dict[col] = hot_columns_all_dict.get(col, 0) + 1
\* on a dict kept as its items in insertion order
CountColumn(counts, col) ==
    IF \E i \in DOMAIN counts : counts[i].col = col
    THEN [i \in DOMAIN counts |->
            IF counts[i].col = col
            THEN [counts[i] EXCEPT !.count = @ + 1] ELSE counts[i]]
    ELSE Append(counts, [col |-> col, count |-> 1])

RECURSIVE CountColumns(_, _)
CountColumns(counts, cols) ==
    IF cols = <<>> THEN counts
    ELSE CountColumns(CountColumn(counts, Head(cols)), Tail(cols))

\* lines 150-162: the counting over the shapes in the snapshot's order
RECURSIVE hot_columns_all_dict(_, _)
hot_columns_all_dict(counts, queries) ==
    IF queries = <<>> THEN counts
    ELSE hot_columns_all_dict(CountColumns(counts, Head(queries).hot_columns),
                              Tail(queries))

RemoveAt(s, i) == [j \in 1..(Len(s) - 1) |-> IF j < i THEN s[j] ELSE s[j + 1]]

\* ascending by count, then reversed: equal counts come out last-seen first
RECURSIVE sorted_by_count_Reversed(_)
sorted_by_count_Reversed(items) ==
    IF items = <<>> THEN <<>>
    ELSE LET m == CHOOSE i \in DOMAIN items :
                    /\ \A j \in DOMAIN items : items[j].count <= items[i].count
                    /\ \A j \in DOMAIN items :
                          items[j].count = items[i].count => j <= i
         IN  <<items[m]>> \o sorted_by_count_Reversed(RemoveAt(items, m))

\* line 193: sorted(items, key=count, reverse=True): descending, stable
RECURSIVE sorted_by_count(_)
sorted_by_count(items) ==
    IF items = <<>> THEN <<>>
    ELSE LET m == CHOOSE i \in DOMAIN items :
                    /\ \A j \in DOMAIN items : items[j].count <= items[i].count
                    /\ \A j \in DOMAIN items :
                          items[j].count = items[i].count => i <= j
         IN  <<items[m]>> \o sorted_by_count(RemoveAt(items, m))

RECURSIVE NotExisting(_, _)
NotExisting(items, existing) ==
    IF items = <<>> THEN <<>>
    ELSE IF InExisting(Head(items).col, existing)
         THEN NotExisting(Tail(items), existing)
         ELSE <<Head(items).col>> \o NotExisting(Tail(items), existing)

\* line 197: [col for col, count in hot_columns_all if col not in existing][:3]
top_candidates(hot_columns_all, existing) ==
    LET new == NotExisting(hot_columns_all, existing)
    IN  SubSeq(new, 1, Min(max_candidates, Len(new)))

\* lines 219-227: the loop over the candidates
RECURSIVE RetuningLoop(_, _, _, _)
RetuningLoop(candidates, i, t, acc) ==
    IF i > Len(candidates) THEN acc
    ELSE LET create_cost == estimate_create_index_cost(Failed(i, "create_cost"))
             drop_cost   == estimate_drop_index_cost(Failed(i, "drop_cost"))
             probe       == get_real_index_size(candidates[i], i, t, acc.pg)
         IN  RetuningLoop(candidates, i + 1, t,
                [create_costs        |-> Append(acc.create_costs, create_cost),
                 drop_costs          |-> Append(acc.drop_costs, drop_cost),
                 index_sizes         |-> Append(acc.index_sizes, probe.size),
                 total_retuning_cost |-> FracAdd(acc.total_retuning_cost,
                                                 FracAdd(create_cost, drop_cost)),
                 pg                  |-> probe.pg])

RECURSIVE SumFracs(_)
SumFracs(s) ==
    IF s = <<>> THEN FracOf(0) ELSE FracAdd(Head(s), SumFracs(Tail(s)))

RECURSIVE SumSeq(_)
SumSeq(s) == IF s = <<>> THEN 0 ELSE Head(s) + SumSeq(Tail(s))

\* the net benefit is looked at before the threshold
Decide_NetBenefitFirst(avg, net_benefit, total_new_space) ==
    IF FracLE(net_benefit, FracOf(0))
    THEN [decision |-> "NO_ACTION", reason |-> "net_benefit"]
    ELSE IF FracLT(avg, FracOf(improvement_threshold))
    THEN [decision |-> "NO_ACTION", reason |-> "threshold"]
    ELSE IF total_new_space > max_space_budget
    THEN [decision |-> "NO_ACTION", reason |-> "space_budget"]
    ELSE [decision |-> "CREATE_INDEXES", reason |-> "create"]

\* lines 244-259: the decision and which of the four reasons is given
Decide(avg, net_benefit, total_new_space) ==
    IF FracLT(avg, FracOf(improvement_threshold))
    THEN [decision |-> "NO_ACTION", reason |-> "threshold"]
    ELSE IF FracLE(net_benefit, FracOf(0))
    THEN [decision |-> "NO_ACTION", reason |-> "net_benefit"]
    ELSE IF total_new_space > max_space_budget
    THEN [decision |-> "NO_ACTION", reason |-> "space_budget"]
    ELSE [decision |-> "CREATE_INDEXES", reason |-> "create"]

\* lines 262-269
recommended_indexes(decision, candidates, index_sizes) ==
    IF decision = "CREATE_INDEXES"
    THEN [i \in DOMAIN candidates |->
            [name   |-> IndexName(<<"idx_", "opt_">>, candidates[i], 0),
             column |-> candidates[i],
             estimated_size_mb |-> Frac(index_sizes[i], bytes_per_mb)]]
    ELSE <<>>

NoRecommendation ==
    [timestamp           |-> 0,
     decision            |-> "",
     reason              |-> "",
     improvement_pct     |-> FracOf(0),
     improvement_value   |-> FracOf(0),
     retuning_cost       |-> FracOf(0),
     net_benefit         |-> FracOf(0),
     recommended_indexes |-> <<>>]

\* the empty-candidates recommendation with the decision of the main path
AllIndexedRecommendation_Create(t, avg, total_improvement_cost) ==
    [timestamp           |-> t,
     decision            |-> "CREATE_INDEXES",
     reason              |-> "already_indexed",
     improvement_pct     |-> round2(avg),
     improvement_value   |-> round2(FracOf(total_improvement_cost)),
     retuning_cost       |-> FracOf(0),
     net_benefit         |-> FracOf(0),
     recommended_indexes |-> <<>>]

\* lines 206-216
AllIndexedRecommendation(t, avg, total_improvement_cost) ==
    [timestamp           |-> t,
     decision            |-> "NO_ACTION",
     reason              |-> "already_indexed",
     improvement_pct     |-> round2(avg),
     improvement_value   |-> round2(FracOf(total_improvement_cost)),
     retuning_cost       |-> FracOf(0),
     net_benefit         |-> FracOf(0),
     recommended_indexes |-> <<>>]

\* the locals of a call of analyze_workload and what it returned
NoRun ==
    [ran                    |-> FALSE,
     at                     |-> 0,
     returned               |-> "None",
     stats                  |-> [exists |-> FALSE, queries |-> <<>>],
     total_baseline_cost    |-> 0,
     total_improvement_cost |-> 0,
     avg_improvement_pct    |-> FracOf(0),
     existing               |-> {},
     hot_columns_all        |-> <<>>,
     candidates             |-> <<>>,
     create_costs           |-> <<>>,
     drop_costs             |-> <<>>,
     index_sizes            |-> <<>>,
     total_retuning_cost    |-> FracOf(0),
     net_benefit            |-> FracOf(0),
     total_new_space        |-> 0,
     recommendation         |-> NoRecommendation]

\* lines 271-281
Recommendation(t, d, avg, improvement, retuning, net, candidates, sizes) ==
    [timestamp           |-> t,
     decision            |-> d.decision,
     reason              |-> d.reason,
     improvement_pct     |-> round2(avg),
     improvement_value   |-> round2(FracOf(improvement)),
     retuning_cost       |-> round2(retuning),
     net_benefit         |-> round2(net),
     recommended_indexes |-> recommended_indexes(d.decision, candidates, sizes)]

\* lines 229-281: from the end of the candidate loop to the recommendation
AfterLoop(measured, loop, net_benefit, total_new_space) ==
    [measured EXCEPT
        !.create_costs = loop.create_costs,
        !.drop_costs = loop.drop_costs,
        !.index_sizes = loop.index_sizes,
        !.total_retuning_cost = loop.total_retuning_cost,
        !.net_benefit = net_benefit,
        !.total_new_space = total_new_space,
        !.recommendation =
            Recommendation(measured.at,
                           Decide(measured.avg_improvement_pct, net_benefit,
                                  total_new_space),
                           measured.avg_improvement_pct,
                           measured.total_improvement_cost,
                           loop.total_retuning_cost, net_benefit,
                           measured.candidates, loop.index_sizes)]

\* lines 204-295: the empty-candidates return, else the candidate loop
FromCandidates(measured, loop) ==
    IF measured.candidates = <<>>
    THEN [locals |-> [measured EXCEPT !.recommendation =
                        AllIndexedRecommendation(measured.at,
                            measured.avg_improvement_pct,
                            measured.total_improvement_cost)],
          pg |-> pg_indexes]
    ELSE [locals |-> AfterLoop(measured, loop,
                        FracSub(FracOf(measured.total_improvement_cost),
                                loop.total_retuning_cost),
                        SumSeq(loop.index_sizes)),
          pg |-> loop.pg]

\* lines 144-197: the sums, the mean, the catalog and the candidates
Measure(started, queries_dict, existing, hot_columns_all) ==
    [started EXCEPT
        !.returned = "Recommendation",
        !.total_baseline_cost = SumBaseline(queries_dict),
        !.total_improvement_cost = SumImprovement(queries_dict),
        !.avg_improvement_pct = mean_improvement_pct(queries_dict),
        !.existing = existing,
        !.hot_columns_all = hot_columns_all,
        !.candidates = top_candidates(hot_columns_all, existing)]

WithLoop(measured) ==
    FromCandidates(measured,
        RetuningLoop(measured.candidates, 1, measured.at,
            [create_costs |-> <<>>, drop_costs |-> <<>>, index_sizes |-> <<>>,
             total_retuning_cost |-> FracOf(0), pg |-> pg_indexes]))

\* lines 112-295 at time t: the locals at the return, and the real indexes
\* the call leaves behind
analyze_workload(t) ==
    IF ~stats_file.exists \/ stats_file.queries = <<>>
    THEN [locals |-> [NoRun EXCEPT !.ran = TRUE, !.at = t, !.stats = stats_file],
          pg |-> pg_indexes]
    ELSE WithLoop(
            Measure([NoRun EXCEPT !.ran = TRUE, !.at = t, !.stats = stats_file],
                    stats_file.queries,
                    get_existing_indexes(pg_indexes),
                    sorted_by_count(
                        hot_columns_all_dict(<<>>, stats_file.queries))))

\* a decision run that writes the alert file whatever analyze_workload returned
AnalyzeWorkload_SaveAlways ==
    /\ now < MaxRuns
    /\ now' = now + 1
    /\ \E run \in {analyze_workload(now + 1)} :
           /\ last' = run.locals
           /\ pg_indexes' = run.pg
           /\ alert_file' = [exists |-> TRUE,
                             recommendation |-> run.locals.recommendation]
    /\ prev' = last
    /\ UNCHANGED <<stats_file, improvement_threshold, max_space_budget, oracle>>
    /\ UNCHANGED <<samplerVars, runnerVars, workloadVars>>

\* lines 326-332: one decision run: analyze_workload, and save_recommendation
\* when it returned a recommendation
AnalyzeWorkload ==
    /\ now < MaxRuns
    /\ now' = now + 1
    /\ \E run \in {analyze_workload(now + 1)} :
           /\ last' = run.locals
           /\ pg_indexes' = run.pg
           /\ alert_file' =
                IF run.locals.returned = "Recommendation"
                THEN [exists |-> TRUE,
                      recommendation |-> run.locals.recommendation]
                ELSE alert_file
    /\ prev' = last
    /\ UNCHANGED <<stats_file, improvement_threshold, max_space_budget, oracle>>
    /\ UNCHANGED <<samplerVars, runnerVars, workloadVars>>

----------------------------------------------------------------------------
(* Initial states *)

InitSamplerVars ==
    /\ hypopg = {}
    /\ index_info = [has |-> FALSE, all_created |-> <<>>, used_by_query |-> <<>>]
    /\ pc = "idle"
    /\ tables = <<>>
    /\ columns = <<>>
    /\ new_columns = <<>>
    /\ ti = 1
    /\ ci = 1
    /\ di = 1
    /\ index_count = 0
    /\ hyp_index_info = <<>>
    /\ baseline_cost = None
    /\ cost = None
    /\ used_indexes = <<>>
    /\ ret = None
    /\ faults = <<>>

\* WorkloadRunner.__init__ and the start of run_phase
InitRunnerVars ==
    /\ stats = [queries |-> <<>>, phases_completed |-> 0, hot_columns |-> <<>>]
    /\ all_hot_cols = {}
    /\ qi = 1
    /\ query = 1
    /\ rp_baseline_cost = None
    /\ iterations = 0
    /\ samples = [q \in DOMAIN CannedQueries |-> {}]

\* no decision run is made: the alerter at its defaults, no snapshot
InitNoAlerter ==
    /\ stats_file = [exists |-> FALSE, queries |-> <<>>]
    /\ pg_indexes = {}
    /\ improvement_threshold = 20
    /\ max_space_budget = 500 * bytes_per_mb
    /\ oracle = [scan_cost |-> FracOf(100), index_size |-> 3 * bytes_per_mb,
                 faults |-> {}]
    /\ now = 0
    /\ last = NoRun
    /\ prev = NoRun
    /\ alert_file = [exists |-> FALSE, recommendation |-> NoRecommendation]

\* run_workload is not running: the sampling loop is looked at on its own,
\* in phase 0
InitNoWorkload ==
    /\ phase = 0
    /\ wpc = "loop"
    /\ clock = 0
    /\ start_time = 0
    /\ last_save_time = 0
    /\ disk = [exists |-> FALSE, partial |-> FALSE, stats |-> stats]
    /\ final_persist = "none"
    /\ interrupted = FALSE
    /\ io_failed = FALSE
    /\ unsaved_since = None

----------------------------------------------------------------------------
(* Spec: one call of get_optimized_cost, with any arguments, in a fresh     *)
(* session                                                                  *)

Init ==
    /\ InitSamplerVars
    /\ \E e \in 0..MaxIndexedCols : existing_indexes = 1..e
    /\ plan_costs = {100}
    /\ InitRunnerVars
    /\ InitNoAlerter
    /\ InitNoWorkload

\* a caller passes any list of tables and any list of columns
Call ==
    /\ pc = "idle"
    /\ \E t \in 0..MaxTables, k \in 0..MaxCols, estimate \in plan_costs :
          Enter(Iota(t), Iota(k), estimate)
    /\ UNCHANGED <<runnerVars, alerterVars, workloadVars>>

Next == Call \/ CreateIndex \/ Explain \/ DropIndex \/ Return

Spec == Init /\ [][Next]_vars

----------------------------------------------------------------------------
(* SpecRunner: the query loop of run_phase over the canned queries          *)

\* the inventory read at startup shows an index on column 1 at least
InitRunner ==
    /\ InitSamplerVars
    /\ \E e \in 1..MaxIndexedCols : existing_indexes = 1..e
    /\ plan_costs = PlanCosts
    /\ InitRunnerVars
    /\ InitNoAlerter
    /\ InitNoWorkload

NextRunner ==
    SampleQuery \/ CreateIndex \/ Explain \/ DropIndex \/ Return \/ RecordExecution

SpecRunner == InitRunner /\ [][NextRunner]_vars

----------------------------------------------------------------------------
(* SpecWorkload: one run of run_workload, from its first phase to its exit  *)

InitWorkload ==
    /\ InitSamplerVars
    /\ \E e \in 1..MaxIndexedCols : existing_indexes = 1..e
    /\ plan_costs = {100}
    /\ InitRunnerVars
    /\ InitNoAlerter
    /\ phase = 0
    /\ wpc = "start"
    /\ clock = 0
    /\ start_time = 0
    /\ last_save_time = 0
    /\ disk = [exists |-> FALSE, partial |-> FALSE, stats |-> stats]
    /\ final_persist = "none"
    /\ interrupted = FALSE
    /\ io_failed = FALSE
    /\ unsaved_since = None

NextWorkload == StartPhase \/ Iterate \/ EndPhase \/ Interrupt \/ FinalSave

SpecWorkload == InitWorkload /\ [][NextWorkload]_vars

\* the interpreter goes on running run_workload until it is left
SpecWorkloadFair == SpecWorkload /\ WF_vars(NextWorkload)

----------------------------------------------------------------------------
(* SpecAlerter: decision runs on a stats snapshot the runner left behind    *)

\* An entry of the snapshot's queries dict, as run_phase writes it.
Shape(hot_columns, executions, total_baseline_cost, total_optimized_cost) ==
    [hot_columns          |-> hot_columns,
     executions           |-> executions,
     total_baseline_cost  |-> total_baseline_cost,
     total_optimized_cost |-> total_optimized_cost,
     avg_improvement_pct  |->
        avg_improvement_pct(total_baseline_cost, total_optimized_cost)]

\* Query shapes a snapshot is made of: 60 %, 2 % and 90 % improvement.
ShapeTypes ==
    {Shape(<<2, 1>>, 10, 1000, 400),
     Shape(<<1>>, 5, 500, 490),
     Shape(<<3, 4, 1, 2>>, 10, 1000, 400),
     Shape(<<1>>, 1, 100, 10)}

Snapshots == UNION {[1..n -> ShapeTypes] : n \in 0..MaxShapes}

\* Real indexes the orders table may carry when the alerter starts: none,
\* idx_1, or idx_1 and idx_2.
Catalogs ==
    {{},
     {IndexName(<<"idx_">>, 1, 0)},
     {IndexName(<<"idx_">>, 1, 0), IndexName(<<"idx_">>, 2, 0)}}

Thresholds == {20, 50}

BudgetsMb == {4, 500}

\* The requests of the candidate loop that may fail.
Requests ==
    (1..max_candidates)
        \X {"create_cost", "drop_cost", "probe_create", "probe_size", "probe_drop"}

RECURSIVE SubsetsUpTo(_, _)
SubsetsUpTo(S, k) ==
    IF k = 0 THEN {{}}
    ELSE LET smaller == SubsetsUpTo(S, k - 1)
         IN  smaller \cup {s \cup {x} : s \in smaller, x \in S}

\* What the database answers: the cost of a scan of orders, the size of an
\* index on a column of orders, and the requests it fails.
Oracles ==
    [scan_cost  : {FracOf(100)},
     index_size : {3 * bytes_per_mb},
     faults     : SubsetsUpTo(Requests, MaxFaults)]

\* A recommendation an earlier decision run persisted for the workload id.
OldAlert ==
    [NoRecommendation EXCEPT !.decision = "CREATE_INDEXES", !.reason = "create"]

\* workload_<id>_alert.json when the alerter starts: absent, or an old one
AlertFiles ==
    {[exists |-> FALSE, recommendation |-> NoRecommendation],
     [exists |-> TRUE, recommendation |-> OldAlert]}

InitAlerter ==
    /\ InitSamplerVars
    /\ existing_indexes = {}
    /\ plan_costs = {}
    /\ InitRunnerVars
    /\ stats_file \in {[exists |-> FALSE, queries |-> <<>>]}
                      \cup {[exists |-> TRUE, queries |-> q] : q \in Snapshots}
    /\ pg_indexes \in Catalogs
    /\ improvement_threshold \in Thresholds
    /\ max_space_budget \in {mb * bytes_per_mb : mb \in BudgetsMb}
    /\ oracle \in Oracles
    /\ now = 0
    /\ last = NoRun
    /\ prev = NoRun
    /\ alert_file \in AlertFiles
    /\ InitNoWorkload

NextAlerter == AnalyzeWorkload

SpecAlerter == InitAlerter /\ [][NextAlerter]_vars

----------------------------------------------------------------------------
(* SpecOperator: decision runs with an operator who materializes, between   *)
(* runs, indexes the latest alert recommends                                *)

\* the cost oracle and the probes answer every request
InitOperator ==
    /\ InitAlerter
    /\ oracle.faults = {}
    /\ ~alert_file.exists

\* The operator runs one of the statements the alert recommends (lines
\* 262-269 and 288-291): CREATE INDEX idx_opt_<column> ON orders (<column>).
OperatorCreates ==
    /\ alert_file.exists
    /\ \E i \in DOMAIN alert_file.recommendation.recommended_indexes :
          LET name == alert_file.recommendation.recommended_indexes[i].name
          IN  /\ name \notin pg_indexes
              /\ pg_indexes' = pg_indexes \cup {name}
    /\ UNCHANGED <<stats_file, improvement_threshold, max_space_budget, oracle,
                   now, last, prev, alert_file>>
    /\ UNCHANGED <<samplerVars, runnerVars, workloadVars>>

NextOperator == AnalyzeWorkload \/ OperatorCreates

SpecOperator == InitOperator /\ [][NextOperator]_vars

----------------------------------------------------------------------------
(* Properties of get_optimized_cost (checked under Spec) *)

RECURSIVE Binomial(_, _)
Binomial(n, k) ==
    IF k = 0 THEN 1
    ELSE IF n = 0 THEN 0
    ELSE Binomial(n - 1, k - 1) + Binomial(n - 1, k)

\* C(n,1) + C(n,2) + C(n,3)
EnumerationCount(n) == Binomial(n, 1) + Binomial(n, 2) + Binomial(n, 3)

\* the columns of the call that carry no real index
NewColumnCount == Cardinality(Range(columns) \ existing_indexes)

Returned == pc = "done"

AllCreatesSucceeded == "create" \notin Range(faults)

CreatedByCall == {hyp_index_info[i].oid : i \in 1..Len(hyp_index_info)}

\* C1: after get_optimized_cost has returned, whatever failed during the
\* call, no hypothetical index that the call created is still active in the
\* oracle session.
C1_NoHypotheticalIndexLeft ==
    Returned => CreatedByCall \cap hypopg = {}

\* C2 (as claimed): with n new columns and a non-empty list of tables, when
\* every create request succeeds the call creates
\* min(50, C(n,1)+C(n,2)+C(n,3)) hypothetical indexes.
C2_CountPerCall ==
    (Returned /\ tables # <<>> /\ AllCreatesSucceeded)
        => Len(hyp_index_info) = Min(max_indexes, EnumerationCount(NewColumnCount))

\* C2 (amended): with n new columns and t tables, when every create request
\* succeeds the call creates min(50, t * (C(n,1)+C(n,2)+C(n,3)))
\* hypothetical indexes.
C2_CountPerCallTimesTables ==
    (Returned /\ tables # <<>> /\ AllCreatesSucceeded)
        => Len(hyp_index_info)
             = Min(max_indexes, Len(tables) * EnumerationCount(NewColumnCount))

\* a call over two tables whose enumeration exceeds the cap has returned
C2_Witness ==
    /\ Returned
    /\ AllCreatesSucceeded
    /\ Len(tables) = 2
    /\ 2 * EnumerationCount(NewColumnCount) > max_indexes
    /\ Len(hyp_index_info) = max_indexes

\* C3: at every point of a call, whatever create requests failed, the call
\* has created at most 50 hypothetical indexes.
C3_AtMostFiftyCreated ==
    /\ Len(hyp_index_info) <= max_indexes
    /\ index_count <= max_indexes
    /\ Cardinality(hypopg) <= max_indexes

\* the cap stops a call that still had requests to issue, after a create
\* request failed
C3_Witness ==
    /\ pc = "create"
    /\ "create" \in Range(faults)
    /\ ti <= Len(tables)
    /\ Len(hyp_index_info) = max_indexes

----------------------------------------------------------------------------
(* Properties of the aggregation (checked under SpecRunner) *)

\* C4: every query-shape entry has avg_improvement_pct =
\* (total_baseline_cost - total_optimized_cost) / total_baseline_cost * 100
\* when total_baseline_cost > 0 and 0 otherwise, and never more than 100.
C4_WeightedAverage ==
    \A k \in DOMAIN stats.queries :
        LET e == stats.queries[k]
            a == e.avg_improvement_pct
        IN  /\ e.total_baseline_cost > 0 =>
                a.n * e.total_baseline_cost
                  = (e.total_baseline_cost - e.total_optimized_cost) * 100 * a.d
            /\ e.total_baseline_cost = 0 => a.n = 0
            /\ a.n <= 100 * a.d

\* a shape with two samples, 40 -> 0 (100%) and 100 -> 40 (60%): the ratio
\* of the sums is 100/140, the mean of the two ratios would be 80%
C4_Witness ==
    \E k \in DOMAIN stats.queries :
        LET e == stats.queries[k]
        IN  /\ e.executions = 2
            /\ e.total_baseline_cost = 140
            /\ e.total_optimized_cost = 40
            /\ e.min_improvement_pct = FracOf(60)
            /\ e.max_improvement_pct = FracOf(100)

----------------------------------------------------------------------------
(* Properties of the sampling loop (checked under SpecRunner) *)

\* the query the loop of run_phase is about to take
AtQuery == get_phase_queries(phase)[qi]

\* a step that runs the loop body for the query at qi
TakesQuery == pc = "idle" /\ iterations' = iterations + 1

\* a step in which run_phase takes up the result of get_optimized_cost
TakesResult == pc = "done" /\ pc' = "idle"

\* executions of the shape of query q so far
Executions(q) ==
    IF q \in DOMAIN stats.queries THEN stats.queries[q].executions ELSE 0

\* C12: a query whose extracted tables or extracted columns are empty is
\* skipped for that iteration: no oracle request is made for it (the
\* session and the sampler are as before, no cost was asked for), and no
\* shape entry, executions counter or cumulative cost changes.
C12_UnindexableQuerySkipped ==
    [][(/\ TakesQuery
        /\ \/ extract_tables_from_query(AtQuery) = <<>>
           \/ extract_columns_from_query(AtQuery) = <<>>)
          => /\ stats' = stats
             /\ samples' = samples
             /\ pc' = "idle"
             /\ rp_baseline_cost' = rp_baseline_cost
             /\ UNCHANGED samplerVars]_vars

\* the query without columns was taken after samples of the others were
\* recorded; it has no entry and the loop is back at the first query
C12_Witness ==
    /\ pc = "idle"
    /\ query = 3
    /\ extract_columns_from_query(query) = <<>>
    /\ qi = 1
    /\ iterations >= 3
    /\ DOMAIN stats.queries = {1, 2}

NoCostReturned ==
    \/ "commit" \in Range(faults)
    \/ cost = None /\ baseline_cost = None

C18_IndexesOfThisSample ==
    \A k \in DOMAIN stats.queries :
        LET e   == stats.queries[k]
            new == Range(e.hot_columns) \ existing_indexes
        IN  /\ \A i \in DOMAIN e.used_indexes :
                  Range(e.used_indexes[i].columns) \subseteq new
            /\ new = {} => e.total_index_size_bytes = 0

\* every column referenced by the shape of query q carries a real index
AllIndexed(q) == Range(extract_columns_from_query(q)) \subseteq existing_indexes

\* C19: when every column passed to get_optimized_cost carries a real index
\* of the inventory read at startup, the call creates no hypothetical index
\* and returns what get_baseline_cost answers, so every sample recorded for
\* the shape has optimized cost = baseline cost and improvement 0.  (The
\* planner's estimate of a query is the same for the two requests of one
\* iteration.)
C19_AllIndexedNoImprovement ==
    /\ (/\ pc = "done"
        /\ tables # <<>>
        /\ columns # <<>>
        /\ Range(columns) \subseteq existing_indexes)
       => /\ hyp_index_info = <<>>
          /\ index_count = 0
          /\ ret \in {rp_baseline_cost, None}
    /\ \A k \in DOMAIN stats.queries :
          AllIndexed(k) =>
             /\ stats.queries[k].total_optimized_cost
                  = stats.queries[k].total_baseline_cost
             /\ samples[k] = {FracOf(0)}
             /\ stats.queries[k].avg_improvement_pct = FracOf(0)

\* a sample of the query on the indexed column alone was recorded
C19_Witness ==
    /\ 2 \in DOMAIN stats.queries
    /\ AllIndexed(2)
    /\ stats.queries[2].executions = 1
    /\ stats.queries[2].total_baseline_cost = 100
    /\ stats.queries[2].total_optimized_cost = 100

FracSetMin(S) == CHOOSE x \in S : \A y \in S : FracLE(x, y)

FracSetMax(S) == CHOOSE x \in S : \A y \in S : FracLE(y, x)

\* C20: after the samples recorded for a shape, min_improvement_pct is the
\* least and max_improvement_pct the greatest of their improvement
\* percentages, samples whose optimized cost is more than twice the
\* baseline included.
C20_MinMaxOfSamples ==
    \A k \in DOMAIN stats.queries :
        /\ samples[k] # {}
        /\ stats.queries[k].min_improvement_pct = FracSetMin(samples[k])
        /\ stats.queries[k].max_improvement_pct = FracSetMax(samples[k])

\* C22: after the samples recorded for a shape, its min_improvement_pct is
\* at most its avg_improvement_pct, which is at most its
\* max_improvement_pct, samples with baseline cost 0 included.
C22_AvgBetweenMinAndMax ==
    \A k \in DOMAIN stats.queries :
        /\ FracLE(stats.queries[k].min_improvement_pct,
                  stats.queries[k].avg_improvement_pct)
        /\ FracLE(stats.queries[k].avg_improvement_pct,
                  stats.queries[k].max_improvement_pct)

----------------------------------------------------------------------------
(* Properties of the decision engine (checked under SpecAlerter) *)

\* the latest run returned a recommendation
Recommended == last.ran /\ last.returned = "Recommendation"

BelowThreshold ==
    FracLT(last.avg_improvement_pct, FracOf(improvement_threshold))

NoNetBenefit ==
    FracLE(FracSub(FracOf(last.total_improvement_cost),
                   last.total_retuning_cost),
           FracOf(0))

OverBudget == SumSeq(last.index_sizes) > max_space_budget

\* C5: with a non-empty candidate list the decision and the reason are those
\* of the first guard that holds, in the order (1) average improvement below
\* the threshold, (2) net benefit <= 0, (3) sum of the candidates' sizes over
\* the space budget, each giving NO_ACTION; the decision is CREATE_INDEXES,
\* with one recommended index per candidate, exactly when none of them holds.
C5_FirstMatchingGuard ==
    (Recommended /\ last.candidates # <<>>) =>
        LET r == last.recommendation
        IN  /\ BelowThreshold =>
                r.decision = "NO_ACTION" /\ r.reason = "threshold"
            /\ (~BelowThreshold /\ NoNetBenefit) =>
                r.decision = "NO_ACTION" /\ r.reason = "net_benefit"
            /\ (~BelowThreshold /\ ~NoNetBenefit /\ OverBudget) =>
                r.decision = "NO_ACTION" /\ r.reason = "space_budget"
            /\ r.decision = "CREATE_INDEXES"
                 <=> ~(BelowThreshold \/ NoNetBenefit \/ OverBudget)
            /\ r.decision = "CREATE_INDEXES" =>
                 /\ Len(r.recommended_indexes) = Len(last.candidates)
                 /\ \A i \in DOMAIN last.candidates :
                       r.recommended_indexes[i].column = last.candidates[i]
            /\ r.decision = "NO_ACTION" => r.recommended_indexes = <<>>

\* a run below the threshold whose net benefit is also not positive and whose
\* candidates do not fit the budget either: the threshold is the reason cited
C5_Witness ==
    /\ Recommended
    /\ last.candidates # <<>>
    /\ BelowThreshold /\ NoNetBenefit /\ OverBudget
    /\ last.recommendation.decision = "NO_ACTION"
    /\ last.recommendation.reason = "threshold"

\* reachable cases of C5: below the threshold with the other guards clear
C5_ThresholdOnly ==
    /\ Recommended /\ last.candidates # <<>>
    /\ BelowThreshold /\ ~NoNetBenefit /\ ~OverBudget
    /\ last.recommendation.reason = "threshold"

\* a 90 % improvement whose retuning cost exceeds the value saved
C5_HighPercentageNoBenefit ==
    /\ Recommended /\ last.candidates # <<>>
    /\ last.avg_improvement_pct = FracOf(90)
    /\ NoNetBenefit
    /\ last.recommendation.decision = "NO_ACTION"
    /\ last.recommendation.reason = "net_benefit"

C5_SpaceOnly ==
    /\ Recommended /\ last.candidates # <<>>
    /\ ~BelowThreshold /\ ~NoNetBenefit /\ OverBudget
    /\ last.recommendation.reason = "space_budget"

C5_Create ==
    /\ Recommended
    /\ last.recommendation.decision = "CREATE_INDEXES"
    /\ Len(last.recommendation.recommended_indexes) = 3

\* C6: the average improvement compared with the threshold is the plain mean
\* of the shapes' avg_improvement_pct, every shape counted once whatever its
\* executions, and the improvement value is the sum over the shapes of
\* (total_baseline_cost - total_optimized_cost).
C6_PlainMeanAndSum ==
    Recommended =>
        LET q == stats_file.queries
            n == Len(q)
        IN  /\ n > 0
            /\ FracMul(last.avg_improvement_pct, FracOf(n)) = SumPcts(q)
            /\ last.total_improvement_cost
                 = SumBaseline(q) - SumSeq([i \in 1..n |-> q[i].total_optimized_cost])
            /\ last.recommendation.improvement_pct
                 = round2(last.avg_improvement_pct)
            /\ last.recommendation.improvement_value
                 = round2(FracOf(last.total_improvement_cost))
            /\ last.candidates # <<>> =>
                 (last.recommendation.reason = "threshold"
                    <=> FracLT(last.avg_improvement_pct,
                               FracOf(improvement_threshold)))

\* a shape at 60 % with 10 executions and one at 2 % with 5: the mean is 31,
\* which passes the threshold of 20 (weighted by executions it would be 40.67)
C6_Witness ==
    /\ Recommended
    /\ Len(stats_file.queries) = 2
    /\ stats_file.queries[1].avg_improvement_pct = FracOf(60)
    /\ stats_file.queries[1].executions = 10
    /\ stats_file.queries[2].avg_improvement_pct = FracOf(2)
    /\ stats_file.queries[2].executions = 5
    /\ last.avg_improvement_pct = FracOf(31)
    /\ last.total_improvement_cost = 610
    /\ improvement_threshold = 20
    /\ last.recommendation.decision = "CREATE_INDEXES"

\* the hot columns of the snapshot
HotColumns ==
    UNION {Range(stats_file.queries[i].hot_columns) :
             i \in DOMAIN stats_file.queries}

\* C7 as stated: when the live catalog reports every hot column of the
\* snapshot as existing, the candidate list is empty and the run returns
\* NO_ACTION with recommended_indexes = [], whatever the improvement
\* percentage, the threshold and the space budget are.
C7_AllIndexedNoAction ==
    (/\ last.ran
     /\ stats_file.exists
     /\ \A c \in HotColumns :
           InExisting(c, get_existing_indexes(pg_indexes)))
    => /\ last.returned = "Recommendation"
       /\ last.candidates = <<>>
       /\ last.recommendation.decision = "NO_ACTION"
       /\ last.recommendation.recommended_indexes = <<>>

\* C7 amended: the same for a snapshot with at least one query shape (a
\* snapshot without any makes analyze_workload return None).
C7_AllIndexedNoActionOfShapes ==
    (/\ last.ran
     /\ stats_file.exists
     /\ stats_file.queries # <<>>
     /\ \A c \in HotColumns :
           InExisting(c, get_existing_indexes(pg_indexes)))
    => /\ last.returned = "Recommendation"
       /\ last.candidates = <<>>
       /\ last.recommendation.decision = "NO_ACTION"
       /\ last.recommendation.recommended_indexes = <<>>

\* both hot columns carry an index; the shape improves by 60 %, over the
\* threshold of 20, and the budget is 500 MB
C7_Witness ==
    /\ Recommended
    /\ HotColumns = {1, 2}
    /\ InExisting(1, last.existing) /\ InExisting(2, last.existing)
    /\ last.avg_improvement_pct = FracOf(60)
    /\ improvement_threshold = 20
    /\ max_space_budget = 500 * bytes_per_mb
    /\ last.recommendation.decision = "NO_ACTION"
    /\ last.recommendation.reason = "already_indexed"

\* C8: every recommendation returned, on every path including the
\* empty-candidates path, has net_benefit = improvement_value - retuning_cost,
\* the retuning cost being the sum over the candidates of create cost plus
\* drop cost.
C8_NetBenefitIdentity ==
    Recommended =>
        LET r == last.recommendation
        IN  /\ r.net_benefit = FracSub(r.improvement_value, r.retuning_cost)
            /\ r.retuning_cost
                 = round2(FracAdd(SumFracs(last.create_costs),
                                  SumFracs(last.drop_costs)))

\* number of query shapes of q that reference column c
Referencing(q, c) ==
    Cardinality({i \in DOMAIN q : c \in Range(q[i].hot_columns)})

RECURSIVE HotColumnsInOrder(_)
HotColumnsInOrder(q) ==
    IF q = <<>> THEN <<>>
    ELSE Head(q).hot_columns \o HotColumnsInOrder(Tail(q))

\* position at which column c is first seen in the snapshot
FirstSeen(q, c) ==
    LET seen == HotColumnsInOrder(q)
    IN  CHOOSE k \in DOMAIN seen :
            seen[k] = c /\ \A j \in 1..(k - 1) : seen[j] # c

RanksBefore(q, a, b) ==
    \/ Referencing(q, a) > Referencing(q, b)
    \/ /\ Referencing(q, a) = Referencing(q, b)
       /\ FirstSeen(q, a) < FirstSeen(q, b)

\* C9: the candidate list has at most 3 columns, none of them in the live
\* catalog, and is the start of the list of the hot columns not in the
\* catalog ordered by descending number of referencing shapes, equal counts
\* in first-seen order.
C9_TopThreeNewColumns ==
    Recommended =>
        LET q    == stats_file.queries
            cand == last.candidates
            new  == {c \in HotColumns : ~InExisting(c, last.existing)}
        IN  /\ Len(cand) <= 3
            /\ Len(cand) = Min(3, Cardinality(new))
            /\ Range(cand) \subseteq new
            /\ \A i, j \in DOMAIN cand :
                  i < j => RanksBefore(q, cand[i], cand[j])
            /\ \A c \in new \ Range(cand) :
                  \A i \in DOMAIN cand : RanksBefore(q, cand[i], c)

\* columns 3, 4, 1, 2 are seen in this order; 2 and 1 are referenced by two
\* shapes, 1 carries an index: 2 comes first, then 3 and 4 as first seen
C9_Witness ==
    /\ Recommended
    /\ Len(stats_file.queries) = 2
    /\ stats_file.queries[1].hot_columns = <<3, 4, 1, 2>>
    /\ stats_file.queries[2].hot_columns = <<2, 1>>
    /\ InExisting(1, last.existing)
    /\ last.candidates = <<2, 3, 4>>

\* four new columns, the two referenced twice first in first-seen order, the
\* fourth is cut
C9_Cut ==
    /\ Recommended
    /\ Len(stats_file.queries) = 2
    /\ stats_file.queries[1].hot_columns = <<3, 4, 1, 2>>
    /\ stats_file.queries[2].hot_columns = <<2, 1>>
    /\ last.existing = {}
    /\ last.candidates = <<1, 2, 3>>

\* C10: two runs on the same snapshot, the same live catalog, the same
\* configuration and the same oracle answers give the same decision, the
\* same candidate ranking and the same recommended_indexes.  (No action
\* changes the configuration or the oracle's answers.)
C10_SameInputsSameDecision ==
    (/\ prev.ran /\ last.ran
     /\ prev.stats = last.stats
     /\ prev.existing = last.existing)
    => /\ prev.returned = last.returned
       /\ prev.recommendation.decision = last.recommendation.decision
       /\ prev.hot_columns_all = last.hot_columns_all
       /\ prev.candidates = last.candidates
       /\ prev.recommendation.recommended_indexes
            = last.recommendation.recommended_indexes

\* two runs at different times that both recommend the same two indexes
C10_Witness ==
    /\ prev.ran /\ last.ran
    /\ prev.at # last.at
    /\ prev.recommendation.timestamp # last.recommendation.timestamp
    /\ prev.stats = last.stats
    /\ prev.existing = last.existing
    /\ last.recommendation.decision = "CREATE_INDEXES"
    /\ Len(last.candidates) >= 2
    /\ prev.recommendation.recommended_indexes
         = last.recommendation.recommended_indexes

\* C11: a decision run made while no stats snapshot exists returns no
\* recommendation at all and leaves the alert file as it was, an old
\* recommendation included.
C11_NoSnapshotNoRecommendation ==
    [][(now' = now + 1 /\ ~stats_file.exists)
          => /\ last'.ran
             /\ last'.returned = "None"
             /\ last'.recommendation = NoRecommendation
             /\ alert_file' = alert_file]_vars

\* a run was made without a snapshot and the old recommendation is still
\* the one on disk
C11_Witness ==
    /\ last.ran
    /\ ~stats_file.exists
    /\ last.returned = "None"
    /\ alert_file = [exists |-> TRUE, recommendation |-> OldAlert]

\* C15: a decision run leaves the set of real indexes of the database as it
\* was: every temporary index get_real_index_size created is dropped before
\* analyze_workload returns, also when the size query or the drop failed.
C15_RealIndexesUnchanged ==
    [][now' = now + 1 => pg_indexes' = pg_indexes]_vars

----------------------------------------------------------------------------
(* Properties of run_workload (checked under SpecWorkload; the liveness    *)
(* part under SpecWorkloadFair)                                            *)

\* a step that is a call of save_stats that failed
SaveFails == io_failed' /\ (~io_failed \/ final_persist' = "failed")

\* C14: every execution of run_workload, whether its four phases complete
\* or an exception interrupts a phase, eventually leaves run_workload, and
\* not before the save_stats call of the finally block was attempted; a
\* save_stats call that fails does not raise (run_workload goes on to its
\* next position) and leaves the in-memory query statistics as they are.
C14_FinalPersistAttempted ==
    /\ <>(wpc = "exited")
    /\ [](wpc = "exited" => final_persist \in {"saved", "failed"})
    /\ [][wpc' = "exited" => (wpc = "finally" /\ final_persist = "none")]_vars
    /\ [][(wpc = "finally" /\ final_persist' = "failed")
            => (stats' = stats /\ wpc' = "exited")]_vars
    /\ [][(wpc = "loop" /\ io_failed' /\ ~io_failed)
            => (stats'.queries[query'].executions = Executions(query') + 1
                /\ \A k \in DOMAIN stats.queries \ {query'} :
                      stats'.queries[k] = stats.queries[k])
               /\ wpc' \in {"loop", "end"}]_vars

\* an exception interrupted a phase after samples were recorded, and the
\* final save failed
C14_Witness ==
    /\ wpc = "exited"
    /\ interrupted
    /\ phase = 1
    /\ final_persist = "failed"
    /\ stats.queries # <<>>
    /\ ~disk.exists

\* C16: while no save fails, every recorded execution is in a written
\* snapshot no later than one save interval (10 time units) after it was
\* recorded, whatever samples are skipped and across phase boundaries.
C16_PersistedWithinInterval ==
    (~io_failed /\ unsaved_since # None)
        => clock - unsaved_since <= save_interval

\* C17: during one run the hot_columns of the statistics only grows: in
\* memory and from one written snapshot to the next, no column is lost.
C17_HotColumnsOnlyGrow ==
    [][/\ Range(stats.hot_columns) \subseteq Range(stats'.hot_columns)
       /\ (disk.exists /\ ~disk'.partial)
            => Range(disk.stats.hot_columns)
                  \subseteq Range(disk'.stats.hot_columns)]_vars

----------------------------------------------------------------------------
(* Further properties of the decision engine *)

\* C21: for every candidate of a decision run the drop cost added to the
\* retuning cost is 0.2 times the create cost added for that candidate, so
\* total_retuning_cost is 1.2 times the sum of the candidates' create
\* costs, also when requests of the cost oracle fail.
C21_DropIsFifthOfCreate ==
    last.ran =>
       /\ \A i \in DOMAIN last.create_costs :
              last.drop_costs[i] = FracMul(last.create_costs[i], Frac(1, 5))
       /\ last.total_retuning_cost
             = FracMul(SumFracs(last.create_costs), Frac(6, 5))

\* the columns c for which the catalog pg holds an index named idx_opt_<c>
CreatedAsRecommended(pg) ==
    {x.column : x \in {y \in pg : y.parts = <<"idx_", "opt_">> /\ y.stamp = 0}}

\* C23 (checked under SpecOperator): once the catalog holds an index under
\* the name recommended for column c, idx_opt_<c>, a decision run finds c
\* among the existing columns, keeps it out of its candidates and does not
\* recommend it again.
C23_CreatedNotRecommendedAgain ==
    [][(now' = now + 1 /\ last'.returned = "Recommendation")
          => \A c \in CreatedAsRecommended(pg_indexes) :
                /\ InExisting(c, last'.existing)
                /\ c \notin Range(last'.candidates)
                /\ \A i \in DOMAIN last'.recommendation.recommended_indexes :
                      last'.recommendation.recommended_indexes[i].column # c]_vars
====
